---- MODULE Spec2Model ----
(***************************************************************************)
(* The books Lambda handler of main.go: router, show (GET), create (POST), *)
(* serverError and clientError, with the DynamoDB helpers getItem and      *)
(* putItem as a key-value collaborator that may fail.                      *)
(*                                                                         *)
(* A text is a sequence of strings whose concatenation it is.  Text that   *)
(* the code looks into (the isbn, the title, the author, a JSON body) has  *)
(* one character per element; a literal that the code copies as a whole    *)
(* (a reason phrase, an error message, the "/books?isbn=" prefix) is one   *)
(* element.  Values the code only compares (the HTTP method, the           *)
(* Content-Type value, a map key) are TLA+ strings.                        *)
(***************************************************************************)
EXTENDS Integers, Sequences, FiniteSets, TLC

VARIABLES db, errorLog, req, outcome, resp, calls

vars == <<db, errorLog, req, outcome, resp, calls>>

(***************************************************************************)
(* Bounds.                                                                 *)
(***************************************************************************)
\* The collaborator is allowed to fail only while the error log holds fewer
\* than MaxLog records (the log is append-only and would grow without bound).
MaxLog == 1

(***************************************************************************)
(* isbnRegexp = `[0-9]{3}\-[0-9]{10}` and regexp.MatchString.              *)
(***************************************************************************)
Digit == {"0", "1", "2", "3", "4", "5", "6", "7", "8", "9"}

\* The two repetition counts of the pattern.
IsbnLead == 3
IsbnTail == 10

\* The pattern matches the substring of s that starts at position i.
MatchAt(s, i) ==
    /\ i >= 1
    /\ i + IsbnLead + IsbnTail <= Len(s)
    /\ \A k \in 0..(IsbnLead - 1) : s[i + k] \in Digit
    /\ s[i + IsbnLead] = "-"
    /\ \A k \in 1..IsbnTail : s[i + IsbnLead + k] \in Digit

\* isbnRegexp.MatchString(s): the pattern has no ^ and no $, so it reports
\* whether s CONTAINS a match.
MatchString(s) == \E i \in 1..Len(s) : MatchAt(s, i)

(***************************************************************************)
(* net/http status codes and http.StatusText.                              *)
(***************************************************************************)
StatusOK == 200
StatusCreated == 201
StatusBadRequest == 400
StatusNotFound == 404
StatusMethodNotAllowed == 405
StatusNotAcceptable == 406
StatusUnprocessableEntity == 422
StatusInternalServerError == 500

StatusText(status) ==
    CASE status = StatusOK -> "OK"
      [] status = StatusCreated -> "Created"
      [] status = StatusBadRequest -> "Bad Request"
      [] status = StatusNotFound -> "Not Found"
      [] status = StatusMethodNotAllowed -> "Method Not Allowed"
      [] status = StatusNotAcceptable -> "Not Acceptable"
      [] status = StatusUnprocessableEntity -> "Unprocessable Entity"
      [] status = StatusInternalServerError -> "Internal Server Error"
      [] OTHER -> ""

(***************************************************************************)
(* The book struct and encoding/json, for JSON texts without white space   *)
(* whose values are strings, numbers or null and whose strings use no      *)
(* escape other than \" and \\ (the request bodies below are such texts).  *)
(***************************************************************************)
\* The zero value of book (new(book)).
ZeroBook == [ISBN |-> <<>>, Title |-> <<>>, Author |-> <<>>]

\* The json:"..." tags of the struct fields.
TagISBN == <<"i", "s", "b", "n">>
TagTitle == <<"t", "i", "t", "l", "e">>
TagAuthor == <<"a", "u", "t", "h", "o", "r">>

RECURSIVE Escape(_)
\* The body of a JSON string literal for s: a quote or a backslash is
\* preceded by a backslash.
Escape(s) ==
    IF s = <<>> THEN <<>>
    ELSE (IF Head(s) \in {"\"", "\\"} THEN <<"\\", Head(s)>> ELSE <<Head(s)>>)
         \o Escape(Tail(s))

\* The JSON string literal for s.
Quote(s) == <<"\"">> \o Escape(s) \o <<"\"">>

\* One "key":"value" member.
Member(key, val) == Quote(key) \o <<":">> \o Quote(val)

\* A mutant of Marshal: the title is written where the author belongs.
MarshalTitleAsAuthor(bk) ==
    [js |-> <<"{">> \o Member(TagISBN, bk.ISBN) \o <<",">>
               \o Member(TagTitle, bk.Title) \o <<",">>
               \o Member(TagAuthor, bk.Title) \o <<"}">>,
     err |-> "nil"]

\* json.Marshal(bk) for a *book: the three fields in declaration order; it
\* cannot fail for a struct of strings.
Marshal(bk) ==
    [js |-> <<"{">> \o Member(TagISBN, bk.ISBN) \o <<",">>
               \o Member(TagTitle, bk.Title) \o <<",">>
               \o Member(TagAuthor, bk.Author) \o <<"}">>,
     err |-> "nil"]

ScanFail == [ok |-> FALSE, kind |-> "none", val |-> <<>>, next |-> 0]

RECURSIVE ScanChars(_, _, _)
\* The characters of a string literal from position i (after the opening
\* quote) to its closing quote, unescaped.
ScanChars(s, i, acc) ==
    IF i > Len(s) THEN ScanFail
    ELSE IF s[i] = "\"" THEN
        [ok |-> TRUE, kind |-> "string", val |-> acc, next |-> i + 1]
    ELSE IF s[i] = "\\" THEN
        IF i + 1 <= Len(s) /\ s[i + 1] \in {"\"", "\\"}
        THEN ScanChars(s, i + 2, Append(acc, s[i + 1]))
        ELSE ScanFail
    ELSE ScanChars(s, i + 1, Append(acc, s[i]))

RECURSIVE ScanDigits(_, _)
\* The position after the run of digits that starts at i.
ScanDigits(s, i) ==
    IF i <= Len(s) /\ s[i] \in Digit THEN ScanDigits(s, i + 1) ELSE i

\* A JSON value at position i: a string, a number or null.
ScanValue(s, i) ==
    IF i > Len(s) THEN ScanFail
    ELSE IF s[i] = "\"" THEN ScanChars(s, i + 1, <<>>)
    ELSE IF s[i] \in Digit THEN
        [ok |-> TRUE, kind |-> "number", val |-> <<>>, next |-> ScanDigits(s, i)]
    ELSE IF i + 3 <= Len(s) /\ SubSeq(s, i, i + 3) = <<"n", "u", "l", "l">> THEN
        [ok |-> TRUE, kind |-> "null", val |-> <<>>, next |-> i + 4]
    ELSE ScanFail

ObjFail == [ok |-> FALSE, members |-> <<>>, next |-> 0]

RECURSIVE ScanMembers(_, _, _)
\* The members of an object from position i (a key) to the closing brace.
ScanMembers(s, i, acc) ==
    IF ~(i <= Len(s) /\ s[i] = "\"") THEN ObjFail
    ELSE
        LET k == ScanChars(s, i + 1, <<>>) IN
        IF ~(k.ok /\ k.next <= Len(s) /\ s[k.next] = ":") THEN ObjFail
        ELSE
            LET v == ScanValue(s, k.next + 1) IN
            IF ~(v.ok /\ v.next <= Len(s)) THEN ObjFail
            ELSE
                LET m == Append(acc, [key |-> k.val, kind |-> v.kind, val |-> v.val]) IN
                IF s[v.next] = "," THEN ScanMembers(s, v.next + 1, m)
                ELSE IF s[v.next] = "}" THEN
                    [ok |-> TRUE, members |-> m, next |-> v.next + 1]
                ELSE ObjFail

\* An object at position i (s[i] is the opening brace).
ScanObject(s, i) ==
    IF i + 1 <= Len(s) /\ s[i + 1] = "}"
    THEN [ok |-> TRUE, members |-> <<>>, next |-> i + 2]
    ELSE ScanMembers(s, i + 1, <<>>)

\* The struct field a key names, or "" for a key that names none (such a
\* member is skipped).
FieldOf(key) ==
    IF key = TagISBN THEN "ISBN"
    ELSE IF key = TagTitle THEN "Title"
    ELSE IF key = TagAuthor THEN "Author"
    ELSE ""

RECURSIVE Assign(_, _, _)
\* The members stored into bk from left to right: a string sets its field,
\* null leaves it, a number is an UnmarshalTypeError (the first is kept and
\* decoding goes on).
Assign(members, bk, err) ==
    IF members = <<>> THEN [bk |-> bk, err |-> err]
    ELSE
        LET m == Head(members)
            f == FieldOf(m.key)
        IN
        IF f = "" \/ m.kind = "null" THEN Assign(Tail(members), bk, err)
        ELSE IF m.kind = "string" THEN
            Assign(Tail(members), [bk EXCEPT ![f] = m.val], err)
        ELSE
            Assign(Tail(members), bk,
                   IF err = "nil" THEN "UnmarshalTypeError" ELSE err)

\* json.Unmarshal(data, bk) with bk = new(book): the text is checked as a
\* whole first (SyntaxError), then decoded.
Unmarshal(data) ==
    IF data = <<>> THEN [bk |-> ZeroBook, err |-> "SyntaxError"]
    ELSE IF data[1] = "{" THEN
        LET o == ScanObject(data, 1) IN
        IF o.ok /\ o.next = Len(data) + 1
        THEN Assign(o.members, ZeroBook, "nil")
        ELSE [bk |-> ZeroBook, err |-> "SyntaxError"]
    ELSE
        LET v == ScanValue(data, 1) IN
        IF v.ok /\ v.next = Len(data) + 1
        THEN [bk |-> ZeroBook,
              err |-> IF v.kind = "null" THEN "nil" ELSE "UnmarshalTypeError"]
        ELSE [bk |-> ZeroBook, err |-> "SyntaxError"]

(***************************************************************************)
(* Go maps (QueryStringParameters, Headers): a function on the keys that   *)
(* are present; indexing an absent key yields the zero value.              *)
(***************************************************************************)
NoEntries == [k \in {} |-> <<>>]

MapIndex(m, k, zero) == IF k \in DOMAIN m THEN m[k] ELSE zero

(***************************************************************************)
(* The persistence collaborator: getItem and putItem over a table keyed by *)
(* ISBN.  db is the set of stored items, at most one per ISBN.  o is what  *)
(* the backend does with the call: "nil" (it works) or the error it        *)
(* returns.                                                                *)
(***************************************************************************)
\* getItem(isbn): (nil, err) on a backend failure, (nil, nil) when no item
\* has the key, (item, nil) otherwise.
getItem(d, isbn, o) ==
    IF o # "nil" THEN [bk |-> ZeroBook, isNil |-> TRUE, err |-> o]
    ELSE IF \E b \in d : b.ISBN = isbn
    THEN [bk |-> CHOOSE b \in d : b.ISBN = isbn, isNil |-> FALSE, err |-> "nil"]
    ELSE [bk |-> ZeroBook, isNil |-> TRUE, err |-> "nil"]

\* putItem(bk): err on a backend failure (nothing is stored); otherwise the
\* item replaces whatever the table held under its ISBN.
putItem(d, bk, o) ==
    IF o # "nil" THEN [db |-> d, err |-> o]
    ELSE [db |-> {b \in d : b.ISBN # bk.ISBN} \cup {bk}, err |-> "nil"]

\* One call of the collaborator as the invocation made it: getItem carries
\* the key it asked for (and no item), putItem the item it handed over.
GetCall(isbn, err) == [op |-> "getItem", isbn |-> isbn, bk |-> ZeroBook, err |-> err]
PutCall(bk, err) == [op |-> "putItem", isbn |-> bk.ISBN, bk |-> bk, err |-> err]

(***************************************************************************)
(* The handlers.  Each yields the response together with its effects: the  *)
(* table afterwards, the records written to errorLogger and the            *)
(* collaborator calls made.  create and router follow the request bodies   *)
(* further down.                                                           *)
(***************************************************************************)
Response(status, headers, body) ==
    [StatusCode |-> status, Headers |-> headers, Body |-> body]

Result(response, d, logged, called) ==
    [resp |-> response, db |-> d, logged |-> logged, calls |-> called]

\* A mutant of clientError: the body is left empty.
clientErrorNoBody(status) == Response(status, NoEntries, <<>>)

clientError(status) == Response(status, NoEntries, <<StatusText(status)>>)

\* One line of errorLogger: the "ERROR " prefix and the message.
LogRecord(msg) == [prefix |-> "ERROR ", msg |-> msg]

\* A mutant of serverError: the error text is sent back as the body.
serverErrorLeak(err) ==
    [resp |-> Response(StatusInternalServerError, NoEntries, <<err>>),
     logged |-> <<LogRecord(err)>>]

serverError(err) ==
    [resp |-> Response(StatusInternalServerError, NoEntries,
                       <<StatusText(StatusInternalServerError)>>),
     logged |-> <<LogRecord(err)>>]

\* A mutant of show: a failed getItem is tried once more.
showRetry(r, d, o) ==
    LET isbn == MapIndex(r.QueryStringParameters, "isbn", <<>>) IN
    IF ~MatchString(isbn)
    THEN Result(clientError(StatusBadRequest), d, <<>>, <<>>)
    ELSE
        LET g == getItem(d, isbn, o)
            called == IF g.err # "nil"
                      THEN <<GetCall(isbn, g.err), GetCall(isbn, g.err)>>
                      ELSE <<GetCall(isbn, g.err)>>
        IN
        IF g.err # "nil"
        THEN Result(serverError(g.err).resp, d, serverError(g.err).logged, called)
        ELSE IF g.isNil
        THEN Result(clientError(StatusNotFound), d, <<>>, called)
        ELSE Result(Response(StatusOK, NoEntries, Marshal(g.bk).js), d, <<>>, called)

show(r, d, o) ==
    LET isbn == MapIndex(r.QueryStringParameters, "isbn", <<>>) IN
    IF ~MatchString(isbn)
    THEN Result(clientError(StatusBadRequest), d, <<>>, <<>>)
    ELSE
        LET g == getItem(d, isbn, o)
            called == <<GetCall(isbn, g.err)>>
        IN
        IF g.err # "nil"
        THEN Result(serverError(g.err).resp, d, serverError(g.err).logged, called)
        ELSE IF g.isNil
        THEN Result(clientError(StatusNotFound), d, <<>>, called)
        ELSE
            LET m == Marshal(g.bk) IN
            IF m.err # "nil"
            THEN Result(serverError(m.err).resp, d, serverError(m.err).logged, called)
            ELSE Result(Response(StatusOK, NoEntries, m.js), d, <<>>, called)

(***************************************************************************)
(* The requests the gateway delivers and what the backend does with them.  *)
(***************************************************************************)
Good == <<"1", "2", "3", "-", "4", "5", "6", "7", "8", "9", "0", "1", "2", "3">>
LeadingJunk == <<"x">> \o Good
ExtraDigit == Good \o <<"4">>
ShortLead == Tail(Good)
ShortTail == SubSeq(Good, 1, Len(Good) - 1)
NoHyphen == SubSeq(Good, 1, 3) \o SubSeq(Good, 5, Len(Good))

\* The isbn values that pass isbnRegexp, and those that do not.
PassingIsbns == {Good, LeadingJunk, ExtraDigit}
FailingIsbns == {<<>>, ShortLead, ShortTail, NoHyphen}
Isbns == PassingIsbns \cup FailingIsbns

Titles == {<<>>, <<"G", "o">>, <<"\"", "\\">>}
Authors == {<<>>, <<"A">>}

\* A JSON object text with the given member texts.
RECURSIVE Join(_)
Join(ms) ==
    IF ms = <<>> THEN <<>>
    ELSE IF Len(ms) = 1 THEN ms[1]
    ELSE ms[1] \o <<",">> \o Join(Tail(ms))

Object(ms) == <<"{">> \o Join(ms) \o <<"}">>

BookText(isbn, title, author) ==
    Object(<<Member(TagISBN, isbn), Member(TagTitle, title), Member(TagAuthor, author)>>)

GoodText == BookText(Good, <<"G", "o">>, <<"A">>)

BookTexts ==
    {BookText(i, t, a) : i \in PassingIsbns, t \in Titles, a \in Authors}
    \cup {BookText(i, <<"G", "o">>, <<"A">>) : i \in FailingIsbns}

OtherTexts ==
    { <<>>,                                                  \* no body
      <<"{">>,                                               \* an open brace
      <<"n", "u", "l", "l">>,                                \* null
      <<"7">>,                                               \* a number
      Quote(Good),                                           \* a string
      <<"{", "}">>,                                          \* no members
      Object(<<Member(TagISBN, Good)>>),                     \* isbn alone
      Object(<<Member(TagAuthor, <<"A">>), Member(TagTitle, <<"G", "o">>),
               Member(TagISBN, Good)>>),                     \* another order
      Object(<<Member(TagISBN, Good), Member(TagTitle, <<>>),
               Member(TagAuthor, <<"A">>), Member(TagTitle, <<"G", "o">>)>>),
                                                             \* title twice
      Object(<<Member(TagISBN, Good), Member(TagTitle, <<"G", "o">>),
               Member(TagAuthor, <<"A">>), Member(<<"y">>, <<"x">>)>>),
                                                             \* unknown key
      Object(<<Member(TagISBN, Good), Quote(TagTitle) \o <<":", "7">>,
               Member(TagAuthor, <<"A">>)>>),                \* title a number
      Object(<<Member(TagISBN, Good), Member(TagTitle, <<"G", "o">>),
               Quote(TagAuthor) \o <<":", "n", "u", "l", "l">>>>),
                                                             \* author null
      SubSeq(GoodText, 1, Len(GoodText) - 1),                \* cut short
      GoodText \o <<"x">> }                                  \* trailing text

Bodies == BookTexts \cup OtherTexts

ContentTypes == {"application/json", "text/plain", "application/json; charset=utf-8"}

\* json.Unmarshal applied to each body a request of the model carries,
\* computed once instead of once per invocation.
Decoded == [b \in Bodies |-> Unmarshal(b)]

\* A mutant of Location: the isbn is left out.
LocationNoIsbn(isbn) == <<"/books?isbn=">>

\* fmt.Sprintf("/books?isbn=%s", isbn)
Location(isbn) == <<"/books?isbn=">> \o isbn

\* A mutant of create: the body is decoded before the Content-Type is
\* looked at.
createParseFirst(r, d, o) ==
    LET u == Decoded[r.Body] IN
    IF u.err # "nil"
    THEN Result(clientError(StatusUnprocessableEntity), d, <<>>, <<>>)
    ELSE IF MapIndex(r.Headers, "Content-Type", "") # "application/json"
    THEN Result(clientError(StatusNotAcceptable), d, <<>>, <<>>)
    ELSE IF ~MatchString(u.bk.ISBN)
    THEN Result(clientError(StatusBadRequest), d, <<>>, <<>>)
    ELSE IF u.bk.Title = <<>> \/ u.bk.Author = <<>>
    THEN Result(clientError(StatusBadRequest), d, <<>>, <<>>)
    ELSE
        LET p == putItem(d, u.bk, o)
            called == <<PutCall(u.bk, p.err)>>
        IN
        IF p.err # "nil"
        THEN Result(serverError(p.err).resp, d, serverError(p.err).logged, called)
        ELSE Result(Response(StatusCreated, "Location" :> Location(u.bk.ISBN), <<>>),
                    p.db, <<>>, called)

create(r, d, o) ==
    IF MapIndex(r.Headers, "Content-Type", "") # "application/json"
    THEN Result(clientError(StatusNotAcceptable), d, <<>>, <<>>)
    ELSE
        LET u == Decoded[r.Body] IN
        IF u.err # "nil"
        THEN Result(clientError(StatusUnprocessableEntity), d, <<>>, <<>>)
        ELSE IF ~MatchString(u.bk.ISBN)
        THEN Result(clientError(StatusBadRequest), d, <<>>, <<>>)
        ELSE IF u.bk.Title = <<>> \/ u.bk.Author = <<>>
        THEN Result(clientError(StatusBadRequest), d, <<>>, <<>>)
        ELSE
            LET p == putItem(d, u.bk, o)
                called == <<PutCall(u.bk, p.err)>>
            IN
            IF p.err # "nil"
            THEN Result(serverError(p.err).resp, d, serverError(p.err).logged, called)
            ELSE Result(Response(StatusCreated, "Location" :> Location(u.bk.ISBN), <<>>),
                        p.db, <<>>, called)

\* A mutant of router: PUT is served like POST.
routerPutCreates(r, d, o) ==
    IF r.HTTPMethod = "GET" THEN show(r, d, o)
    ELSE IF r.HTTPMethod \in {"POST", "PUT"} THEN create(r, d, o)
    ELSE Result(clientError(StatusMethodNotAllowed), d, <<>>, <<>>)

router(r, d, o) ==
    IF r.HTTPMethod = "GET" THEN show(r, d, o)
    ELSE IF r.HTTPMethod = "POST" THEN create(r, d, o)
    ELSE Result(clientError(StatusMethodNotAllowed), d, <<>>, <<>>)

Request(method, query, headers, body) ==
    [HTTPMethod |-> method, QueryStringParameters |-> query,
     Headers |-> headers, Body |-> body]

GetRequests ==
    {Request("GET", q, NoEntries, <<>>) :
        q \in {NoEntries} \cup {"isbn" :> i : i \in Isbns}}

PostRequests ==
    {Request("POST", NoEntries, "Content-Type" :> "application/json", b) : b \in Bodies}
    \cup {Request("POST", NoEntries, h, b) :
            h \in {NoEntries, "content-type" :> "application/json"}
                  \cup {"Content-Type" :> c : c \in ContentTypes \ {"application/json"}},
            b \in {GoodText, <<"7">>, <<"{">>}}

OtherRequests ==
    { Request("PUT", NoEntries, "Content-Type" :> "application/json", GoodText),
      Request("DELETE", "isbn" :> Good, NoEntries, <<>>),
      Request("get", "isbn" :> Good, NoEntries, <<>>) }

\* The errors the backend may return.
Causes == {"ResourceNotFoundException", "ProvisionedThroughputExceededException"}
Outcomes == {"nil"} \cup Causes

(***************************************************************************)
(* The state machine: lambda.Start(router) serves one invocation after     *)
(* another.  req, outcome, resp and calls describe the last invocation.    *)
(***************************************************************************)
NoRequest == Request("", NoEntries, NoEntries, <<>>)
NoResponse == Response(0, NoEntries, <<>>)

Init ==
    /\ db = {}
    /\ errorLog = <<>>
    /\ req = NoRequest
    /\ outcome = "nil"
    /\ resp = NoResponse
    /\ calls = <<>>

Invoke(r, o) ==
    /\ o # "nil" => Len(errorLog) < MaxLog
    /\ LET res == router(r, db, o) IN
        /\ db' = res.db
        /\ errorLog' = errorLog \o res.logged
        /\ resp' = res.resp
        /\ calls' = res.calls
    /\ req' = r
    /\ outcome' = o

Get == \E r \in GetRequests, o \in Outcomes : Invoke(r, o)

Post == \E r \in PostRequests, o \in Outcomes : Invoke(r, o)

Other == \E r \in OtherRequests, o \in Outcomes : Invoke(r, o)

Next == Get \/ Post \/ Other

Spec == Init /\ [][Next]_vars

(***************************************************************************)
(* Properties.                                                             *)
(***************************************************************************)
\* An invocation has been served (req, outcome, resp and calls describe it).
Served == req # NoRequest

\* The isbn query parameter of a request, "" when it is missing.
QueryIsbn(r) == MapIndex(r.QueryStringParameters, "isbn", <<>>)

ContentType(r) == MapIndex(r.Headers, "Content-Type", "")

\* s has the fixed shape and nothing else: 3 digits, a hyphen, 10 digits.
IsbnShape(s) ==
    /\ Len(s) = IsbnLead + 1 + IsbnTail
    /\ \A k \in 1..Len(s) :
          IF k = IsbnLead + 1 THEN s[k] = "-" ELSE s[k] \in Digit

ValidRecord(b) == IsbnShape(b.ISBN) /\ b.Title # <<>> /\ b.Author # <<>>

Range(f) == {f[x] : x \in DOMAIN f}

\* The records the step from the unprimed to the primed state appended to
\* the error log.
Logged == SubSeq(errorLog', Len(errorLog) + 1, Len(errorLog'))

FailedCalls(cs) == {i \in 1..Len(cs) : cs[i].err # "nil"}

\* C1: no record is handed to putItem by create, and none is returned in a
\* 200 body by show, unless its isbn has the fixed shape (3 digits, hyphen,
\* 10 digits, nothing else) and its title and author are non-empty.
C1_OnlyValidRecords ==
    /\ \A i \in 1..Len(calls) :
          calls[i].op = "putItem" => ValidRecord(calls[i].bk)
    /\ (req.HTTPMethod = "GET" /\ resp.StatusCode = StatusOK)
          => ValidRecord(Unmarshal(resp.Body).bk)

\* C2: the ISBN check the handlers use is true of a string exactly when the
\* string as a whole has the shape 3 digits, hyphen, 10 digits (stated of
\* the isbn the read handler has just checked).
C2_ExactMatch ==
    req.HTTPMethod = "GET"
        => (MatchString(QueryIsbn(req)) <=> IsbnShape(QueryIsbn(req)))

\* C3: the router dispatches on the method alone: GET gives what show
\* gives, POST what create gives, any other method 405 with its reason
\* phrase, no collaborator call, nothing logged and the table untouched.
C3_Dispatch ==
    [][ LET got == Result(resp', db', Logged, calls') IN
        /\ req'.HTTPMethod = "GET" => got = show(req', db, outcome')
        /\ req'.HTTPMethod = "POST" => got = create(req', db, outcome')
        /\ req'.HTTPMethod \notin {"GET", "POST"} =>
              /\ resp' = Response(405, NoEntries, <<"Method Not Allowed">>)
              /\ calls' = <<>>
              /\ errorLog' = errorLog
              /\ db' = db ]_vars

C3_Witness ==
    /\ req.HTTPMethod = "PUT"
    /\ ContentType(req) = "application/json"
    /\ resp.StatusCode = 405
    /\ db # {}
    /\ outcome # "nil"

\* C4: a GET whose isbn parameter is missing or is not a valid ISBN gets
\* 400 whatever the table holds and whether or not the backend works, and
\* getItem is not called.
C4_BadIsbn400 ==
    (req.HTTPMethod = "GET" /\ ~IsbnShape(QueryIsbn(req)))
        => (resp.StatusCode = StatusBadRequest /\ calls = <<>>)

\* C5: a GET with a well-formed isbn for which the collaborator reports no
\* record and no error gets 404 with the 404 reason phrase, logs nothing
\* and leaves the table as it was.
C5_NotFound ==
    [][ ( /\ req'.HTTPMethod = "GET"
          /\ IsbnShape(QueryIsbn(req'))
          /\ outcome' = "nil"
          /\ ~\E b \in db : b.ISBN = QueryIsbn(req') )
        => ( /\ resp' = Response(404, NoEntries, <<"Not Found">>)
             /\ calls' = <<GetCall(QueryIsbn(req'), "nil")>>
             /\ errorLog' = errorLog
             /\ db' = db ) ]_vars

C5_Witness ==
    /\ req.HTTPMethod = "GET"
    /\ IsbnShape(QueryIsbn(req))
    /\ outcome = "nil"
    /\ resp.StatusCode = 404
    /\ db # {}

\* C6: a POST whose Content-Type is not exactly application/json (a missing
\* header included) gets 406 whatever its body is, and putItem is not called.
C6_NotAcceptable ==
    (req.HTTPMethod = "POST" /\ ContentType(req) # "application/json")
        => ( /\ resp = Response(406, NoEntries, <<"Not Acceptable">>)
             /\ calls = <<>> )

\* A body that would not parse, under a Content-Type that is not JSON.
C6_Witness ==
    /\ req.HTTPMethod = "POST"
    /\ "Content-Type" \in DOMAIN req.Headers
    /\ ContentType(req) = "text/plain"
    /\ req.Body = <<"{">>
    /\ resp.StatusCode = 406

\* C7: a POST with Content-Type application/json whose body is the JSON of
\* a record with a valid isbn and non-empty title and author, when putItem
\* succeeds, gets 201 with an empty body and Location "/books?isbn=" plus the
\* isbn, and exactly that record was handed to putItem.
C7_Created ==
    \A i \in Isbns, t \in Titles, a \in Authors :
        ( /\ req.HTTPMethod = "POST"
          /\ ContentType(req) = "application/json"
          /\ req.Body = BookText(i, t, a)
          /\ ValidRecord([ISBN |-> i, Title |-> t, Author |-> a])
          /\ outcome = "nil" )
        => ( /\ resp = Response(201, "Location" :> (<<"/books?isbn=">> \o i), <<>>)
             /\ calls = <<PutCall([ISBN |-> i, Title |-> t, Author |-> a], "nil")>> )

C7_Witness ==
    /\ req.HTTPMethod = "POST"
    /\ req.Body = BookText(Good, <<"\"", "\\">>, <<"A">>)
    /\ resp.StatusCode = 201
    /\ Len(calls) = 1

\* C8: whenever the collaborator fails during a GET or a POST the response
\* is 500 with the 500 reason phrase, the failure cause is appended to the
\* error log as exactly one record, and the cause is not in the body;
\* conversely a response that is not a 500 appends nothing.
C8_ServerError ==
    [][ /\ SubSeq(errorLog', 1, Len(errorLog)) = errorLog
        /\ \A i \in FailedCalls(calls') :
              /\ resp' = Response(500, NoEntries, <<"Internal Server Error">>)
              /\ Logged = <<[prefix |-> "ERROR ", msg |-> calls'[i].err]>>
              /\ calls'[i].err \notin Range(resp'.Body)
        /\ resp'.StatusCode # 500 => Logged = <<>> ]_vars

C8_Witness ==
    /\ req.HTTPMethod = "POST"
    /\ FailedCalls(calls) # {}
    /\ resp.StatusCode = 500
    /\ errorLog # <<>>

\* C9: round trip.  A POST answered 201 leaves its record in the table; a
\* record in the table stays as it is until a POST for the same isbn is
\* answered 201; and a GET for the isbn of a record in the table, when the
\* backend works, gets 200 with a JSON body whose isbn, title and author
\* are those of the record.
C9_RoundTrip ==
    [][ /\ (req'.HTTPMethod = "POST" /\ resp'.StatusCode = 201)
              => Unmarshal(req'.Body).bk \in db'
        /\ \A b \in db :
              \/ b \in db'
              \/ /\ req'.HTTPMethod = "POST"
                 /\ resp'.StatusCode = 201
                 /\ Unmarshal(req'.Body).bk.ISBN = b.ISBN
        /\ \A b \in db :
              ( /\ req'.HTTPMethod = "GET"
                /\ QueryIsbn(req') = b.ISBN
                /\ outcome' = "nil" )
              => ( /\ resp'.StatusCode = 200
                   /\ Unmarshal(resp'.Body) = [bk |-> b, err |-> "nil"] ) ]_vars

\* A record whose title needs escaping, read back after it was written.
C9_Witness ==
    /\ req.HTTPMethod = "GET"
    /\ resp.StatusCode = 200
    /\ Unmarshal(resp.Body).bk.Title = <<"\"", "\\">>
    /\ \E b \in db : b.ISBN = QueryIsbn(req) /\ b.Title = <<"\"", "\\">>

\* C10: every invocation ends with a response and makes at most one
\* collaborator call: a GET at most one getItem and no putItem, a POST at
\* most one putItem and no getItem, any other method none; a failed call is
\* answered 500 at once, without a second call.
C10_OneCall ==
    Served =>
        /\ resp.StatusCode \in {200, 201, 400, 404, 405, 406, 422, 500}
        /\ Len(calls) <= 1
        /\ \A i \in 1..Len(calls) :
              /\ req.HTTPMethod = "GET" => calls[i].op = "getItem"
              /\ req.HTTPMethod = "POST" => calls[i].op = "putItem"
              /\ req.HTTPMethod \in {"GET", "POST"}
              /\ calls[i].err # "nil" => resp.StatusCode = 500

C10_Witness ==
    /\ req.HTTPMethod = "GET"
    /\ Len(calls) = 1
    /\ calls[1].err # "nil"
    /\ resp.StatusCode = 500

====
